---- MODULE Spec2Model ----
(***************************************************************************)
(* A model of redux/store.py: the Store (state cell, reducer, listener     *)
(* registry), create_store and combine_reducers, together with the         *)
(* reducers of test/test_redux.py that drive it.                           *)
(*                                                                         *)
(* Python objects are records [t, v, addr, items]: t is the type tag, v    *)
(* the payload of an immediate value, addr the identity of a heap object   *)
(* (0 for None, small ints and interned strings, whose identity is their   *)
(* value) and items the ordered (name, value) pairs of a container.        *)
(* Python's `is` is equality of such records; `==` ignores addr.           *)
(***************************************************************************)
EXTENDS Integers, Sequences, FiniteSets, TLC

(* ---------------- bounds ---------------- *)
MaxCount == 2
MaxAddr == 2
MaxReentrant == 2
MaxScript == 6

(* ---------------- values ---------------- *)
NoItems == <<>>

NoneV == [t |-> "none", v |-> 0, addr |-> 0, items |-> NoItems]

IntV(n) == [t |-> "int", v |-> n, addr |-> 0, items |-> NoItems]

\* the two visibility filters of the tests, as interned string literals
SHOW_ALL == 1

SHOW_COMPLETED == 2

StrV(s) == [t |-> "str", v |-> s, addr |-> 0, items |-> NoItems]

Item(n, x) == [name |-> n, val |-> x]

OrderedDict(a, its) == [t |-> "odict", v |-> 0, addr |-> a, items |-> its]

\* Python's `x is y`
Is(x, y) == x = y

\* Python's `x == y` on the values of the model: identity is ignored
Eq(x, y) == x.t = y.t /\ x.v = y.v /\ x.items = y.items

(* ---------------- actions (the ActionType inputs) ---------------- *)
ActionNone == [type |-> "None", filter |-> 0]

Action(ty) == [type |-> ty, filter |-> 0]

SetFilter(f) == [type |-> "SET_VISIBILITY_FILTER", filter |-> f]

Actions ==
  { ActionNone, Action("INC_COUNTER"), Action("DEC_COUNTER"), Action("UNKNOWN"),
    SetFilter(SHOW_ALL), SetFilter(SHOW_COMPLETED) }

(* ---------------- reducer results ---------------- *)
\* what one reducer call produced: an exception or a value, the calls made
\* to sub-reducers (in order) and the number of heap objects it allocated
Raised(cs) == [raised |-> TRUE, value |-> NoneV, calls |-> cs, allocs |-> 0]

Returned(x, cs, n) == [raised |-> FALSE, value |-> x, calls |-> cs, allocs |-> n]

Call(n, s, a) == [name |-> n, slice |-> s, action |-> a]

(* ---------------- the reducers of test/test_redux.py ---------------- *)
counter(state, action) ==
  IF Is(state, NoneV) THEN Returned(IntV(0), <<>>, 0)
  ELSE IF action = ActionNone THEN Raised(<<>>)              \* None.type
  ELSE IF action.type = "INC_COUNTER"
       THEN IF state.t = "int" THEN Returned(IntV(state.v + 1), <<>>, 0)
            ELSE Raised(<<>>)                                \* state + 1
  ELSE IF action.type = "DEC_COUNTER"
       THEN IF state.t = "int" THEN Returned(IntV(state.v - 1), <<>>, 0)
            ELSE Raised(<<>>)                                \* state - 1
  ELSE Returned(state, <<>>, 0)

visibility_filter(state, action) ==
  IF Is(state, NoneV) THEN Returned(StrV(SHOW_ALL), <<>>, 0)
  ELSE IF action = ActionNone THEN Raised(<<>>)              \* None.type
  ELSE IF action.type = "SET_VISIBILITY_FILTER"
       THEN Returned(StrV(action.filter), <<>>, 0)
  ELSE Returned(state, <<>>, 0)

\* the reducer bound to a name in combine_reducers(counter=counter,
\* visibility_filter=visibility_filter)
SubReducer(name, slice, action) ==
  IF name = "counter" THEN counter(slice, action)
  ELSE visibility_filter(slice, action)

(* ---------------- combine_reducers ---------------- *)
\* a state factory of the form state_factory(**kwargs): a class whose
\* instances carry the keyword arguments as attributes
ObjectOf(a, its) == [t |-> "obj", v |-> 0, addr |-> a, items |-> its]

HasName(state, name) == \E i \in 1..Len(state.items) : state.items[i].name = name

ValueOf(state, name) ==
  state.items[CHOOSE i \in 1..Len(state.items) : state.items[i].name = name].val

\* state[name] succeeds on a mapping that has the key
Subscriptable(state, name) == state.t = "odict" /\ HasName(state, name)

\* getattr(state, name) succeeds on an object that has the attribute
HasAttr(state, name) == state.t = "obj" /\ HasName(state, name)

\* a factory branch that reads slices by subscription
CanReadKey(factory, state, name) == Subscriptable(state, name)

CanRead(factory, state, name) ==
  IF factory = "none" THEN Subscriptable(state, name) ELSE HasAttr(state, name)

\* the list comprehension of both `reduce` closures, from position i on:
\* read the slice, call the sub-reducer, collect (name, result); an exception
\* ends it at once
RECURSIVE Comprehension(_, _, _, _, _, _, _)
Comprehension(factory, names, i, state, action, its, cs) ==
  IF i > Len(names) THEN Returned(NoneV, cs, 0) @@ [items |-> its]
  ELSE IF ~CanRead(factory, state, names[i]) THEN Raised(cs) @@ [items |-> its]
  ELSE LET slice == ValueOf(state, names[i])
           r == SubReducer(names[i], slice, action)
           cs2 == Append(cs, Call(names[i], slice, action))
       IN IF r.raised THEN Raised(cs2) @@ [items |-> its]
          ELSE Comprehension(factory, names, i + 1, state, action,
                             Append(its, Item(names[i], r.value)), cs2)

\* the state factories of the model: "AppState" is a class, each call makes
\* a new instance; "Flyweight" keeps one instance per combination of
\* keyword arguments and returns that one (identity 0)
Allocates(factory) == IF factory = "Flyweight" THEN 0 ELSE 1

state_factory(factory, fresh, kwargs) ==
  IF factory = "Flyweight" THEN ObjectOf(0, kwargs) ELSE ObjectOf(fresh, kwargs)

\* a combined reducer that returns the state it was given when no slice changed
combine_reducers_memo(factory, names, state, action, fresh) ==
  LET c == Comprehension(factory, names, 1, state, action, <<>>, <<>>)
  IN IF c.raised THEN Raised(c.calls)
     ELSE IF c.items = state.items THEN Returned(state, c.calls, 0)
     ELSE IF factory = "none" THEN Returned(OrderedDict(fresh, c.items), c.calls, 1)
     ELSE Returned(state_factory(factory, fresh, c.items), c.calls, Allocates(factory))

\* the reducer returned by combine_reducers(factory, **reducers), applied to
\* (state, action); fresh is the identity of the next object allocated
combine_reducers(factory, names, state, action, fresh) ==
  LET c == Comprehension(factory, names, 1, state, action, <<>>, <<>>)
  IN IF c.raised THEN Raised(c.calls)
     ELSE IF factory = "none" THEN Returned(OrderedDict(fresh, c.items), c.calls, 1)
     ELSE Returned(state_factory(factory, fresh, c.items), c.calls, Allocates(factory))

(* ---------------- reducers given to a store ---------------- *)
Reducer(k, ns, f) == [kind |-> k, names |-> ns, factory |-> f]

Names == <<"counter", "visibility_filter">>

Reversed == <<"visibility_filter", "counter">>

\* the composite state a seeding reducer starts from: every slice absent
Absent(factory, names) ==
  LET its == [i \in 1..Len(names) |-> Item(names[i], NoneV)]
  IN IF factory = "none" THEN OrderedDict(0, its) ELSE ObjectOf(0, its)

\* a combined reducer that takes an absent state for one whose slices are
\* all absent
ReduceDefaulting(r, state, action, fresh) ==
  IF r.kind = "counter" THEN counter(state, action)
  ELSE IF r.kind = "visibility_filter" THEN visibility_filter(state, action)
  ELSE IF r.kind = "identity" THEN Returned(state, <<>>, 0)
  ELSE combine_reducers(r.factory, r.names,
                        IF Is(state, NoneV) THEN Absent(r.factory, r.names) ELSE state,
                        action, fresh)

\* a ReducerFunction applied to (state, action)
Reduce(r, state, action, fresh) ==
  IF r.kind = "counter" THEN counter(state, action)
  ELSE IF r.kind = "visibility_filter" THEN visibility_filter(state, action)
  ELSE IF r.kind = "identity" THEN Returned(state, <<>>, 0)
  ELSE IF r.kind = "combine"
       THEN combine_reducers(r.factory, r.names, state, action, fresh)
  ELSE \* "seeded": lambda s, a: combined(ABSENT if s is None else s, a)
       combine_reducers(r.factory, r.names,
                        IF Is(state, NoneV) THEN Absent(r.factory, r.names) ELSE state,
                        action, fresh)

Reducers ==
  { Reducer("counter", <<>>, "none"), Reducer("identity", <<>>, "none"),
    Reducer("combine", Names, "none"), Reducer("combine", Names, "AppState"),
    Reducer("seeded", Names, "none"), Reducer("seeded", Reversed, "AppState") }

(* ---------------- listeners ---------------- *)
\* the listeners of a run are two callables that differ from one another
Listeners == {1, 2}

NoListener == 0

\* Python's `==` on listeners: listeners 3 and 4 are two distinct callables
\* that compare equal (as two bound-method objects of one method do); all
\* other listeners are equal only to themselves
SameAs(x, y) == x = y \/ {x, y} = {3, 4}

(* ---------------- the store ---------------- *)
VARIABLES
  origin,       \* how the application got its store: "none", "ctor", "created"
  _reducer,     \* Store._reducer
  _state,       \* Store._state
  _listeners,   \* Store._listeners
  stack,        \* the dispatch calls in progress, innermost last
  handles,      \* the listeners for which subscribe has returned a handle
  nextAddr,     \* identity of the next heap object
  event,        \* what the last step did
  revoked,      \* listeners whose unsubscribe handle has been called
  removedSince, \* ... and that were not passed to subscribe since
  rInput,       \* pure-function runs: the reducer, state and action applied
  rOutput,      \*                     and what the reducer produced
  trace,        \* CounterListener.trace of the store tests
  script        \* the store tests: the actions dispatched and the states read

vars == <<origin, _reducer, _state, _listeners, stack, handles, nextAddr, event,
          revoked, removedSince, rInput, rOutput, trace, script>>

\* the state of the store tests
test == <<trace, script>>

Range(q) == { q[i] : i \in 1..Len(q) }

\* a reducer call outside any store: its arguments and its outcome
Input(r, s, a, n) == [reducer |-> r, state |-> s, action |-> a, fresh |-> n]

Output(rdy, o) == [ready |-> rdy, res |-> o]

NoReducer == Reducer("none", <<>>, "none")

NoInput == Input(NoReducer, NoneV, ActionNone, 1)

NoOutput == Output(FALSE, Raised(<<>>))

\* a store test so far: the actions it has dispatched, the states it has read
\* after them, and the number of actions it had dispatched when it called
\* remove_listener() (-1: not called)
Script(as, ss, un) == [sent |-> as, seen |-> ss, unsubscribed |-> un]

NoScript == Script(<<>>, <<>>, -1)

\* a dispatch whose reducer returned: the states it compares, its position
\* in the listener list and the listener running; then a record of the pass
\* (the listeners at its start, those called, those removed meanwhile, each
\* removal as it happened, the state committed last) and, in the outermost
\* dispatch, the number of calls listeners have made to the store since it
\* began
Frame(p, n, reg) ==
  [prev |-> p, new |-> n, i |-> 0, cur |-> NoListener, ops |-> 0,
   subs |-> reg, called |-> <<>>, removed |-> {}, removals |-> <<>>, latest |-> n]

\* a notification pass that has ended: "completed" (the loop ran to its end)
\* or "aborted" (a listener raised)
Pass(st, f) ==
  [status |-> st, prev |-> f.prev, new |-> f.new, subs |-> f.subs,
   called |-> f.called, removed |-> f.removed, removals |-> f.removals,
   latest |-> f.latest]

NoPass == Pass("none", Frame(NoneV, NoneV, <<>>))

\* one record per step: the operation, its argument, whether it raised, how
\* often it called the store's reducer, the listener it invoked (inv) with
\* the arguments of that call, and the pass that ended with it; again says
\* that a subscribe found its listener registered, or that a handle had been
\* called before; value is what a read of the state returned
Event(o, l, r, rc, iv, p, n, ps) ==
  [op |-> o, listener |-> l, raised |-> r, rcalls |-> rc, again |-> FALSE,
   inv |-> iv, iprev |-> p, inew |-> n, pass |-> ps, value |-> NoneV]

Plain(o, l, r) == Event(o, l, r, 0, NoListener, NoneV, NoneV, NoPass)

Repeat(o, l, ag) == [Plain(o, l, FALSE) EXCEPT !.again = ag]

Read(x) == [Plain("state", NoListener, FALSE) EXCEPT !.value = x]

Top == stack[Len(stack)]

Pop(stk) == SubSeq(stk, 1, Len(stk) - 1)

\* `listener in self._listeners`
In(reg, l) == \E i \in 1..Len(reg) : SameAs(reg[i], l)

\* the position list.remove(l) deletes: the first element equal to l
IndexOf(reg, l) ==
  CHOOSE i \in 1..Len(reg) : SameAs(reg[i], l) /\ \A j \in 1..(i - 1) : ~SameAs(reg[j], l)

\* a subscribe that appends without looking
RegisterAlways(reg, l) == Append(reg, l)

\* subscribe: `if listener not in self._listeners: self._listeners.append(listener)`
Register(reg, l) == IF ~In(reg, l) THEN Append(reg, l) ELSE reg

\* a handle that removes the newest listener instead of its own
RemoveLast(reg, l) == IF In(reg, l) THEN SubSeq(reg, 1, Len(reg) - 1) ELSE reg

\* a handle that drops the newest listener when its own is gone
RemoveOrPop(reg, l) ==
  IF In(reg, l)
  THEN SubSeq(reg, 1, IndexOf(reg, l) - 1) \o SubSeq(reg, IndexOf(reg, l) + 1, Len(reg))
  ELSE SubSeq(reg, 1, Len(reg) - 1)

\* remove_listener: `if listener in self._listeners: self._listeners.remove(listener)`
Remove(reg, l) ==
  IF In(reg, l)
  THEN SubSeq(reg, 1, IndexOf(reg, l) - 1) \o SubSeq(reg, IndexOf(reg, l) + 1, Len(reg))
  ELSE reg

\* a dispatch that notifies without comparing the states
ChangedAlways(prev_state, new_state) == TRUE

\* `if prev_state is not new_state`
Changed(prev_state, new_state) == ~Is(prev_state, new_state)

\* a dispatch that forgets the assignment
CommitNothing(prev_state, new_state) == prev_state

\* `self._state = new_state`
Commit(prev_state, new_state) == new_state

\* a dispatch that clears the state when the reducer raises
UncommittedReset(prev_state) == NoneV

\* the reducer raised: the exception leaves dispatch before the assignment
\* to self._state
Uncommitted(prev_state) == prev_state

\* the list iterator of `for listener in self._listeners`: it holds a position
\* into the live list and stops when the position is past the end
HasNext(f, reg) == f.i < Len(reg)

\* the counters of the model stay within 0..MaxCount
InBounds(x) ==
  /\ x.t = "int" => x.v \in 0..MaxCount
  /\ \A k \in 1..Len(x.items) :
       x.items[k].val.t = "int" => x.items[k].val.v \in 0..MaxCount

\* the caller of an operation: the application when no dispatch is in
\* progress, else the listener that is running; the listeners make at most
\* MaxReentrant calls to the store while one dispatch of the application runs
MayCall == IF stack = <<>> THEN TRUE ELSE stack[1].ops < MaxReentrant

Charged(stk) ==
  IF stk = <<>> THEN stk ELSE [stk EXCEPT ![1].ops = @ + 1]

\* every dispatch in progress notes the state that has just been committed
Noted(stk, x) == [k \in 1..Len(stk) |-> [stk[k] EXCEPT !.latest = x]]

\* list.remove(l) as the loop of frame f sees it: the element deleted and its
\* position, the loop's position, and, when the deletion is at or before
\* that position, the listener that moves into it (next) and those behind
\* that one (rest); at is the number of listeners the loop had called
Removal(f, reg, l) ==
  LET p == IndexOf(reg, l)
      hit == p <= f.i
  IN [listener |-> reg[p], pos |-> p, i |-> f.i, at |-> Len(f.called),
      next |-> IF hit /\ f.i + 1 <= Len(reg) THEN reg[f.i + 1] ELSE NoListener,
      rest |-> IF hit THEN SubSeq(reg, f.i + 2, Len(reg)) ELSE <<>>]

Removing(stk, reg, l) ==
  [k \in 1..Len(stk) |->
     IF In(reg, l)
     THEN [stk[k] EXCEPT !.removed = @ \cup {reg[IndexOf(reg, l)]},
                         !.removals = Append(@, Removal(stk[k], reg, l))]
     ELSE stk[k]]

\* a loop over a copy of the list, made when the dispatch began
TurnOverCopy(stk, reg) ==
  LET f == stk[Len(stk)]
      copy == IF reg = <<>> THEN reg ELSE f.subs
  IN IF f.i < Len(copy)
     THEN LET l == copy[f.i + 1]
              g == [f EXCEPT !.i = f.i + 1, !.cur = l, !.called = Append(f.called, l)]
          IN [stack |-> Append(Pop(stk), g), ended |-> FALSE, inv |-> l,
              iprev |-> f.prev, inew |-> f.new, pass |-> NoPass]
     ELSE [stack |-> Pop(stk), ended |-> TRUE, inv |-> NoListener,
           iprev |-> NoneV, inew |-> NoneV, pass |-> Pass("completed", f)]

\* one turn of `for listener in self._listeners` in the innermost dispatch:
\* the next listener is called with (prev_state, new_state), or the loop ends
\* and dispatch returns
Turn(stk, reg) ==
  LET f == stk[Len(stk)]
  IN IF HasNext(f, reg)
     THEN LET l == reg[f.i + 1]
              g == [f EXCEPT !.i = f.i + 1, !.cur = l, !.called = Append(f.called, l)]
          IN [stack |-> Append(Pop(stk), g), ended |-> FALSE, inv |-> l,
              iprev |-> f.prev, inew |-> f.new, pass |-> NoPass]
     ELSE [stack |-> Pop(stk), ended |-> TRUE, inv |-> NoListener,
           iprev |-> NoneV, inew |-> NoneV, pass |-> Pass("completed", f)]

\* a constructor that computes the initial state itself
StoreInitEager(r) ==
  [reducer |-> r, state |-> Reduce(r, NoneV, ActionNone, 1).value, listeners |-> <<>>]

\* Store.__init__
StoreInit(r) == [reducer |-> r, state |-> NoneV, listeners |-> <<>>]

\* Store.dispatch on a store with the given reducer, state and listeners, up
\* to the first turn of its notification loop: the reducer's outcome, the
\* state the store holds afterwards, and the stack after that turn
Dispatched(red, st, reg, stk, action, fresh) ==
  LET prev_state == st
      out == Reduce(red, prev_state, action, fresh)
      new_state == out.value
  IN IF out.raised
     THEN [raised |-> TRUE, out |-> out, rcalls |-> 1, state |-> Uncommitted(prev_state),
           turn |-> [stack |-> stk, ended |-> TRUE, inv |-> NoListener,
                     iprev |-> NoneV, inew |-> NoneV, pass |-> NoPass]]
     ELSE [raised |-> FALSE, out |-> out, rcalls |-> 1,
           state |-> Commit(prev_state, new_state),
           turn |-> Turn(Append(Noted(Charged(stk), new_state),
                                Frame(prev_state, new_state, reg)),
                         IF Changed(prev_state, new_state) THEN reg ELSE <<>>)]

Init ==
  /\ origin = "none"
  /\ _reducer = NoReducer
  /\ _state = NoneV
  /\ _listeners = <<>>
  /\ stack = <<>>
  /\ handles = {}
  /\ nextAddr = 1
  /\ event = Plain("init", NoListener, FALSE)
  /\ revoked = {}
  /\ removedSince = {}
  /\ rInput = NoInput
  /\ rOutput = NoOutput
  /\ trace = <<>>
  /\ script = NoScript

\* Store(reducer), called by the application itself
Store(r) ==
  /\ origin = "none"
  /\ origin' = "ctor"
  /\ _reducer' = StoreInit(r).reducer
  /\ _state' = StoreInit(r).state
  /\ _listeners' = StoreInit(r).listeners
  /\ event' = Plain("Store", NoListener, FALSE)
  /\ UNCHANGED <<stack, handles, nextAddr, revoked, removedSince, rInput, rOutput, test>>

\* create_store(reducer): Store(reducer), dispatch(None), return the store;
\* when the dispatch raises the application gets no store
create_store(r) ==
  /\ origin = "none"
  /\ LET store == StoreInit(r)
         d == Dispatched(store.reducer, store.state, store.listeners, stack,
                         ActionNone, nextAddr)
     IN /\ event' = Event("create_store", NoListener, d.raised, d.rcalls, d.turn.inv,
                          d.turn.iprev, d.turn.inew, d.turn.pass)
        /\ IF d.raised
           THEN UNCHANGED <<origin, _reducer, _state, _listeners, nextAddr>>
           ELSE /\ origin' = "created"
                /\ _reducer' = store.reducer
                /\ _state' = d.state
                /\ _listeners' = store.listeners
                /\ nextAddr' = nextAddr + d.out.allocs
  /\ UNCHANGED <<stack, handles, revoked, removedSince, rInput, rOutput, test>>

\* store.dispatch(action), called by the application or by the listener that
\* is running
dispatch(action) ==
  /\ origin # "none"
  /\ MayCall
  /\ LET d == Dispatched(_reducer, _state, _listeners, stack, action, nextAddr)
     IN /\ event' = Event("dispatch", NoListener, d.raised, d.rcalls, d.turn.inv,
                          d.turn.iprev, d.turn.inew, d.turn.pass)
        /\ IF d.raised
           THEN /\ _state' = d.state
                /\ stack' = Charged(stack)
                /\ UNCHANGED nextAddr
           ELSE /\ InBounds(d.out.value)
                /\ nextAddr + d.out.allocs <= MaxAddr + 1
                /\ _state' = d.state
                /\ nextAddr' = nextAddr + d.out.allocs
                /\ stack' = d.turn.stack
  /\ UNCHANGED <<origin, _reducer, _listeners, handles, revoked, removedSince,
                 rInput, rOutput, test>>

\* the running listener returns and the loop of its dispatch takes a turn
ListenerReturn ==
  /\ stack # <<>>
  /\ LET t == Turn(stack, _listeners)
     IN /\ stack' = t.stack
        /\ event' = Event("return", Top.cur, FALSE, 0, t.inv, t.iprev, t.inew, t.pass)
  /\ UNCHANGED <<origin, _reducer, _state, _listeners, handles, nextAddr, revoked,
                 removedSince, rInput, rOutput, test>>

\* the running listener raises: the exception leaves the loop and the
\* dispatch, and reaches whoever called that dispatch
ListenerRaise ==
  /\ stack # <<>>
  /\ stack' = Pop(stack)
  /\ event' = Event("raise", Top.cur, TRUE, 0, NoListener, NoneV, NoneV,
                    Pass("aborted", Top))
  /\ UNCHANGED <<origin, _reducer, _state, _listeners, handles, nextAddr, revoked,
                 removedSince, rInput, rOutput, test>>

\* store.subscribe(listener)
subscribe(l) ==
  /\ origin # "none"
  /\ MayCall
  /\ _listeners' = Register(_listeners, l)
  /\ stack' = Charged(stack)
  /\ handles' = handles \cup {l}
  /\ removedSince' = removedSince \ {l}
  /\ event' = Repeat("subscribe", l, In(_listeners, l))
  /\ UNCHANGED <<origin, _reducer, _state, nextAddr, revoked, rInput, rOutput, test>>

\* the handle returned by subscribe(l) is called
remove_listener(l) ==
  /\ l \in handles
  /\ MayCall
  /\ _listeners' = Remove(_listeners, l)
  /\ revoked' = revoked \cup {l}
  /\ removedSince' = removedSince \cup {l}
  /\ stack' = Removing(Charged(stack), _listeners, l)
  /\ event' = Repeat("remove_listener", l, l \in revoked)
  /\ UNCHANGED <<origin, _reducer, _state, handles, nextAddr, rInput, rOutput, test>>

\* a property that returns, while a dispatch is in progress, the state that
\* dispatch committed, whatever was committed since
get_state_of_pass ==
  /\ origin # "none"
  /\ event' = Read(IF stack = <<>> THEN _state ELSE Top.new)
  /\ UNCHANGED <<origin, _reducer, _state, _listeners, stack, handles, nextAddr,
                 revoked, removedSince, rInput, rOutput, test>>

\* the property store.state, read by the application or by the listener that
\* is running
get_state ==
  /\ origin # "none"
  /\ event' = Read(_state)
  /\ UNCHANGED <<origin, _reducer, _state, _listeners, stack, handles, nextAddr,
                 revoked, removedSince, rInput, rOutput, test>>

Next ==
  \/ \E r \in Reducers : Store(r)
  \/ \E r \in Reducers : create_store(r)
  \/ \E a \in Actions : dispatch(a)
  \/ ListenerReturn
  \/ ListenerRaise
  \/ \E l \in Listeners : subscribe(l)
  \/ \E l \in Listeners : remove_listener(l)

Spec == Init /\ [][Next]_vars

(* ---------------- reducers applied on their own ---------------- *)
\* the reducers combine_reducers returns, for both orders of the two names
\* and for no factory and each kind of factory
Combined ==
  { Reducer("combine", ns, f) :
      ns \in {Names, Reversed}, f \in {"none", "AppState", "Flyweight"} }

\* the states they are applied to: mappings and objects (made before the
\* run, identity 0) holding both slices in either order, slices absent, of
\* the right and of the wrong type, and states a combined reducer cannot read
\* (None, a number, a missing name)
Composites ==
  { [t |-> k, v |-> 0, addr |-> 0, items |-> <<Item(ns[1], x[ns[1]]), Item(ns[2], x[ns[2]])>>] :
      k \in {"odict", "obj"}, ns \in {Names, Reversed},
      x \in [ counter : {NoneV, IntV(0), IntV(1), StrV(SHOW_ALL)},
              visibility_filter : {NoneV, StrV(SHOW_ALL), StrV(SHOW_COMPLETED)} ] }

Unreadable ==
  { NoneV, IntV(0), OrderedDict(0, <<Item("counter", IntV(0))>>),
    ObjectOf(0, <<Item("visibility_filter", StrV(SHOW_ALL))>>) }

InitReduce ==
  /\ origin = "none"
  /\ _reducer = NoReducer
  /\ _state = NoneV
  /\ _listeners = <<>>
  /\ stack = <<>>
  /\ handles = {}
  /\ nextAddr = 1
  /\ event = Plain("init", NoListener, FALSE)
  /\ revoked = {}
  /\ removedSince = {}
  /\ rInput \in { Input(r, s, a, 1) :
                    r \in Combined, s \in Composites \cup Unreadable, a \in Actions }
  /\ rOutput = NoOutput
  /\ trace = <<>>
  /\ script = NoScript

\* reduce(state, action)
Apply ==
  /\ ~rOutput.ready
  /\ rOutput' = Output(TRUE, Reduce(rInput.reducer, rInput.state, rInput.action, rInput.fresh))
  /\ UNCHANGED <<origin, _reducer, _state, _listeners, stack, handles, nextAddr, event,
                 revoked, removedSince, rInput, test>>

\* the state returned is given to the reducer again, with another action
Feed(a) ==
  /\ rOutput.ready
  /\ ~rOutput.res.raised
  /\ InBounds(rOutput.res.value)
  /\ rInput.fresh + rOutput.res.allocs <= MaxAddr
  /\ rInput' = Input(rInput.reducer, rOutput.res.value, a, rInput.fresh + rOutput.res.allocs)
  /\ rOutput' = NoOutput
  /\ UNCHANGED <<origin, _reducer, _state, _listeners, stack, handles, nextAddr, event,
                 revoked, removedSince, test>>

NextReduce == Apply \/ \E a \in Actions : Feed(a)

SpecReduce == InitReduce /\ [][NextReduce]_vars

(* ---------------- the store tests ---------------- *)
\* test_dispatch and test_subscribe of ReduxStoreTest, run as one test with
\* any actions of the counter in place of the five of the tests: the store is
\* created, the CounterListener subscribed, actions dispatched and the state
\* read after each, and remove_listener() called at some point
CounterActions == {Action("INC_COUNTER"), Action("DEC_COUNTER"), Action("UNKNOWN")}

CounterListener == 1

\* store = create_store(counter)
test_create == create_store(Reducer("counter", <<>>, "none"))

\* remove_listener = store.subscribe(listener), right after the creation
test_subscribe ==
  /\ handles = {}
  /\ subscribe(CounterListener)

\* store.dispatch(CounterAction(...)), up to the first call of a listener
test_dispatch(action) ==
  /\ handles # {}
  /\ stack = <<>>
  /\ Len(script.sent) < MaxScript
  /\ Len(script.seen) = Len(script.sent)
  /\ LET d == Dispatched(_reducer, _state, _listeners, stack, action, nextAddr)
     IN /\ ~d.raised
        /\ InBounds(d.out.value)
        /\ event' = Event("dispatch", NoListener, d.raised, d.rcalls, d.turn.inv,
                          d.turn.iprev, d.turn.inew, d.turn.pass)
        /\ _state' = d.state
        /\ stack' = d.turn.stack
  /\ script' = [script EXCEPT !.sent = Append(@, action)]
  /\ UNCHANGED <<origin, _reducer, _listeners, handles, nextAddr, revoked, removedSince,
                 rInput, rOutput, trace>>

\* CounterListener.__call__(old_state, new_state) adds the pair to its trace
\* and returns; the loop of the dispatch takes its next turn
CounterListener_call ==
  /\ stack # <<>>
  /\ Top.cur = CounterListener
  /\ trace' = Append(trace, <<Top.prev, Top.new>>)
  /\ LET t == Turn(stack, _listeners)
     IN /\ stack' = t.stack
        /\ event' = Event("return", Top.cur, FALSE, 0, t.inv, t.iprev, t.inew, t.pass)
  /\ UNCHANGED <<origin, _reducer, _state, _listeners, handles, nextAddr, revoked,
                 removedSince, rInput, rOutput, script>>

\* self.assertEquals(store.state, ...): the test reads the state
test_state ==
  /\ stack = <<>>
  /\ Len(script.seen) < Len(script.sent)
  /\ script' = [script EXCEPT !.seen = Append(@, _state)]
  /\ event' = Read(_state)
  /\ UNCHANGED <<origin, _reducer, _state, _listeners, stack, handles, nextAddr,
                 revoked, removedSince, rInput, rOutput, trace>>

\* listener.trace = ''; remove_listener()
test_remove_listener ==
  /\ stack = <<>>
  /\ CounterListener \in handles
  /\ script.unsubscribed = -1
  /\ Len(script.seen) = Len(script.sent)
  /\ trace' = <<>>
  /\ script' = [script EXCEPT !.unsubscribed = Len(script.sent)]
  /\ _listeners' = Remove(_listeners, CounterListener)
  /\ revoked' = revoked \cup {CounterListener}
  /\ removedSince' = removedSince \cup {CounterListener}
  /\ event' = Repeat("remove_listener", CounterListener, CounterListener \in revoked)
  /\ UNCHANGED <<origin, _reducer, _state, stack, handles, nextAddr, rInput, rOutput>>

NextCounter ==
  \/ test_create
  \/ test_subscribe
  \/ \E a \in CounterActions : test_dispatch(a)
  \/ CounterListener_call
  \/ test_state
  \/ test_remove_listener

SpecCounter == Init /\ [][NextCounter]_vars

(* ---------------- listeners that compare equal ---------------- *)
\* a counter store whose listeners are two distinct callables that compare
\* equal with `==`, such as the two bound-method objects that two
\* reads of obj.on_change give, or two instances of a class that defines
\* __eq__
Twins == {3, 4}

NextTwins ==
  \/ create_store(Reducer("counter", <<>>, "none"))
  \/ \E a \in CounterActions : dispatch(a)
  \/ ListenerReturn
  \/ ListenerRaise
  \/ \E l \in Twins : subscribe(l)
  \/ \E l \in Twins : remove_listener(l)
  \/ get_state

SpecTwins == Init /\ [][NextTwins]_vars

(* ---------------- three listeners ---------------- *)
\* a counter store with three listeners that differ from one another; the
\* application and the listeners dispatch INC_COUNTER only, and read the
\* state
Crowd == Listeners \cup {5}

NextCrowd ==
  \/ create_store(Reducer("counter", <<>>, "none"))
  \/ dispatch(Action("INC_COUNTER"))
  \/ ListenerReturn
  \/ ListenerRaise
  \/ \E l \in Crowd : subscribe(l)
  \/ \E l \in Crowd : remove_listener(l)
  \/ get_state

SpecCrowd == Init /\ [][NextCrowd]_vars

(* ---------------- properties of the store ---------------- *)
NoDuplicates(q) == \A i, j \in 1..Len(q) : i # j => ~SameAs(q[i], q[j])

\* the elements of q that are in S, in the order of q
Restrict(q, S) == LET Keep(x) == x \in S IN SelectSeq(q, Keep)

\* the pass that ended with the last step ran the loop of a dispatch that
\* changed the state, to its end
ChangePassCompleted ==
  event.pass.status = "completed" /\ Changed(event.pass.prev, event.pass.new)

\* some reducer call on a sample of states and actions returns None
Samples ==
  { NoneV, IntV(0), IntV(MaxCount), StrV(SHOW_ALL),
    Absent("none", Names), Absent("AppState", Names) }

CanReturnNone(r) ==
  \E s \in Samples, a \in Actions :
    ~Reduce(r, s, a, 1).raised /\ Is(Reduce(r, s, a, 1).value, NoneV)

\* C1 (change law): when a dispatch that changed the state returns, every
\* listener that was subscribed when it started, and was not unsubscribed
\* while it ran, has been invoked exactly once, in subscription order, and
\* every invocation passes (previous state, new state) of its dispatch.
C1_ChangeLaw ==
  /\ event.inv # NoListener =>
       event.iprev = Top.prev /\ event.inew = Top.new /\ Changed(Top.prev, Top.new)
  /\ ChangePassCompleted =>
       LET stay == Range(event.pass.subs) \ event.pass.removed
       IN Restrict(event.pass.called, stay) = Restrict(event.pass.subs, stay)

\* C2 (identity no-op law): a dispatch whose reducer returns the very state
\* it was given invokes no listener and starts no notification pass, and the
\* store holds the returned value.
C2_IdentityNoOp ==
  [][\A a \in Actions :
       LET out == Reduce(_reducer, _state, a, nextAddr)
       IN (/\ event'.op = "dispatch"
           /\ ~out.raised
           /\ Is(out.value, _state)
           /\ dispatch(a))
          => (/\ event'.inv = NoListener
              /\ stack' = Charged(stack)
              /\ _state' = out.value)]_vars

C2_Witness ==
  /\ event.op = "dispatch" /\ ~event.raised
  /\ event.pass.status = "completed"
  /\ Is(event.pass.prev, event.pass.new)
  /\ event.pass.subs # <<>>
  /\ _state # NoneV

\* C3 as claimed (unsubscribe law): a listener whose unsubscribe handle has
\* been called is never invoked again, whatever follows.
C3_NeverAgain == event.inv # NoListener => event.inv \notin revoked

\* C3 as amended: a listener whose unsubscribe handle has been called is not
\* invoked again as long as it is not passed to subscribe again.
C3_NotUntilResubscribed == event.inv # NoListener => event.inv \notin removedSince

C3_Witness ==
  /\ ChangePassCompleted
  /\ event.pass.called # <<>>
  /\ \E l \in removedSince : l \in Range(event.pass.subs) /\ l \notin Range(event.pass.called)

\* C4 as claimed (handle idempotence): calling an unsubscribe handle that has
\* been called before changes neither the registry nor the state, whatever
\* happened in between.
C4_LaterCallNoOp ==
  [][\A l \in Listeners :
       (event'.op = "remove_listener" /\ l \in revoked /\ remove_listener(l))
       => (_listeners' = _listeners /\ _state' = _state /\ ~event'.raised)]_vars

\* C4 as amended: calling an unsubscribe handle again raises nothing and never
\* changes the state; it leaves the registry as it was when its listener has
\* not been subscribed again since the previous call, and removes that
\* listener when it has.
C4_LaterCallRemovesIfPresent ==
  [][\A l \in Listeners :
       (event'.op = "remove_listener" /\ l \in revoked /\ remove_listener(l))
       => (/\ _state' = _state /\ ~event'.raised
           /\ l \in removedSince => _listeners' = _listeners
           /\ ~In(_listeners', l)
           /\ \A m \in Listeners \ {l} : In(_listeners', m) = In(_listeners, m))]_vars

C4_Witness ==
  /\ event.op = "remove_listener" /\ event.again
  /\ _listeners # <<>>
  /\ _state # NoneV

C6_InitialState ==
  /\ (event.op = "create_store" /\ ~event.raised) =>
       /\ origin = "created"
       /\ ~Reduce(_reducer, NoneV, ActionNone, 1).raised
       /\ Is(_state, Reduce(_reducer, NoneV, ActionNone, 1).value)
       /\ event.rcalls = 1
       /\ event.inv = NoListener /\ stack = <<>> /\ _listeners = <<>>
  /\ (event.op = "create_store" /\ event.raised) => origin = "none"
  /\ event.op = "Store" =>
       Is(_state, NoneV) /\ event.rcalls = 0 /\ event.inv = NoListener

C6_Witness ==
  /\ event.op = "create_store" /\ ~event.raised
  /\ _state = OrderedDict(1, <<Item("counter", IntV(0)), Item("visibility_filter", StrV(SHOW_ALL))>>)
  /\ nextAddr = 2

\* C7 as claimed: the state of a store returned by create_store is never None.
C7_NeverAbsent == origin = "created" => ~Is(_state, NoneV)

\* C7 as amended: the state of a store returned by create_store is never None
\* when its reducer never returns None.
C7_NeverAbsentUnlessReturned ==
  (origin = "created" /\ Is(_state, NoneV)) => CanReturnNone(_reducer)

C7_Witness ==
  /\ origin = "created" /\ ~CanReturnNone(_reducer)
  /\ event.op = "dispatch" /\ ~event.raised
  /\ _state = IntV(MaxCount)

\* C8 (reducer failure): a dispatch whose reducer raises (a reducer made by
\* combine_reducers whose sub-reducer raises included) reports the error to
\* its caller, leaves the state and the registry as they were and invokes no
\* listener.
C8_ReducerFailure ==
  [][\A a \in Actions :
       (/\ event'.op = "dispatch"
        /\ Reduce(_reducer, _state, a, nextAddr).raised
        /\ dispatch(a))
       => (/\ event'.raised
           /\ _state' = _state
           /\ _listeners' = _listeners
           /\ event'.inv = NoListener
           /\ stack' = Charged(stack))]_vars

C8_Witness ==
  /\ event.op = "dispatch" /\ event.raised
  /\ _reducer.kind = "seeded" /\ _state.t = "obj"
  /\ _listeners # <<>>

\* the store's reducer was built by combine_reducers
Combining(r) == r.kind \in {"combine", "seeded"}

\* the dispatch that the last step performed: its pass when that has ended
\* already, else its frame
Performed == IF event.pass.status = "none" THEN Top ELSE event.pass

\* every listener that was subscribed when the pass began and stayed
\* subscribed has been called once, in order
AllNotified(pass) ==
  LET stay == Range(pass.subs) \ pass.removed
  IN Restrict(pass.called, stay) = Restrict(pass.subs, stay)

\* a dispatch of a combined store that returns installs a new reference
C12_NewReference ==
  (Combining(_reducer) /\ event.op = "dispatch" /\ ~event.raised) =>
    /\ Changed(Performed.prev, Performed.new)
    /\ Is(_state, Performed.new)
    /\ _listeners # <<>> => event.inv = _listeners[1]

\* C12 (combined store): every dispatch of a store whose reducer was built by
\* combine_reducers installs a new top-level state reference, so that the
\* identity no-op case is never reached, and notifies every subscribed
\* listener.
C12_AlwaysAChange ==
  /\ C12_NewReference
  /\ (Combining(_reducer) /\ event.pass.status = "completed") =>
       Changed(event.pass.prev, event.pass.new) /\ AllNotified(event.pass)

\* C13 as claimed (commit before notify): whenever a listener is invoked
\* with (previous, next), the store's state is next, also when an earlier
\* listener of the same pass has called dispatch.
C13_CommitBeforeNotify == event.inv # NoListener => Is(_state, event.inew)

\* C13 as amended: whenever a listener is invoked with (previous, next) of
\* its dispatch, the store's state is the state committed last: next for the
\* first listener of the pass, and for a later one next unless a dispatch
\* called by a listener of the pass has committed its own result since; no
\* other operation changes what was committed.
C13_CommitBeforeFirstNotify ==
  [][/\ event'.inv # NoListener =>
          LET f == stack'[Len(stack')]
          IN /\ event'.iprev = f.prev /\ event'.inew = f.new
             /\ Is(_state', f.latest)
             /\ f.i = 1 => Is(_state', event'.inew)
             /\ event'.op = "return" =>
                  Is(_state', _state) /\ Is(f.latest, stack[Len(stack)].latest)
     /\ \A k \in 1..Len(stack) :
          (k <= Len(stack') /\ ~Is(stack'[k].latest, stack[k].latest)) =>
            /\ event'.op = "dispatch" /\ ~event'.raised
            /\ Is(stack'[k].latest, _state')
            /\ Len(stack') >= Len(stack)]_vars

C13_Witness ==
  /\ event.op = "return" /\ event.inv # NoListener
  /\ Len(stack) = 1
  /\ ~Is(_state, event.inew)
  /\ Is(_state, Top.latest)

\* the order of a reentrant dispatch: a dispatch called by a listener applies
\* the reducer to the state the store holds, commits the result and starts
\* its own pass; while it runs no dispatch below it moves on to its next
\* listener; and when a dispatch returns, the store holds the state that was
\* committed last within it
NestedRunsFirst ==
     /\ \A k \in 1..(Len(stack) - 1) :
          k <= Len(stack') =>
            /\ stack'[k].i = stack[k].i /\ stack'[k].cur = stack[k].cur
            /\ stack'[k].called = stack[k].called
            /\ stack'[k].prev = stack[k].prev /\ stack'[k].new = stack[k].new
     /\ Len(stack') = Len(stack) - 1 =>
          \A k \in 1..Len(stack') :
            stack'[k].i = stack[k].i /\ stack'[k].called = stack[k].called
     /\ (event'.op = "dispatch" /\ ~event'.raised /\ stack # <<>>) =>
          LET d == IF event'.pass.status = "none" THEN stack'[Len(stack')] ELSE event'.pass
          IN /\ Is(d.prev, _state) /\ Is(d.new, _state')
             /\ (Changed(d.prev, d.new) /\ _listeners # <<>>) =>
                  /\ event'.inv = _listeners[1]
                  /\ event'.iprev = d.prev /\ event'.inew = d.new
     /\ event'.pass.status = "completed" => Is(_state', event'.pass.latest)

C14_NestedRunsFirst == [][NestedRunsFirst]_vars

\* C14 (reentrant dispatch): a dispatch called by a listener runs completely
\* (reducer applied to the current state s1, result s2 committed, all
\* registered listeners notified with (s1, s2)) before the dispatch below it
\* invokes its next listener, and when that dispatch returns the state is
\* the one committed last.
C14_ReentrantDispatch ==
  [][/\ NestedRunsFirst
     /\ (event'.pass.status = "completed" /\ stack' # <<>>
         /\ Changed(event'.pass.prev, event'.pass.new)) =>
          AllNotified(event'.pass)]_vars

\* the listeners of a pass that were subscribed while it ran and not
\* unsubscribed in it
Added(pass, reg) == { l \in Range(reg) \ Range(pass.subs) : l \notin pass.removed }

\* the listeners unsubscribed in a pass before the loop had called them, and
\* not subscribed again in it, with the number of calls made before
Dropped(pass, reg) ==
  { r \in Range(pass.removals) :
      /\ r.listener \notin Range(SubSeq(pass.called, 1, r.at))
      /\ r.listener \notin Range(reg)
      /\ \A q \in Range(pass.removals) : q.listener = r.listener => q = r }

\* the loop invokes only listeners that are in the registry when their turn
\* comes, and none that was unsubscribed before its turn
C15_ReadsLive ==
  /\ event.inv # NoListener => In(_listeners, event.inv)
  /\ ChangePassCompleted =>
       \A r \in Dropped(event.pass, _listeners) :
         r.listener \notin Range(SubSeq(event.pass.called, r.at + 1, Len(event.pass.called)))

\* C15 (live registry): the loop reads the registry itself: a listener
\* subscribed during a pass is invoked in that pass, after the listeners
\* registered before it, and a listener unsubscribed during the pass before
\* its turn is not invoked in it.
C15_LiveRegistry ==
  /\ C15_ReadsLive
  /\ ChangePassCompleted =>
       \A l \in Added(event.pass, _listeners) :
         \E j \in 1..Len(event.pass.called) :
           /\ event.pass.called[j] = l
           /\ \A k \in (j + 1)..Len(event.pass.called) :
                event.pass.called[k] \notin Range(event.pass.subs) \ event.pass.removed

\* C16 (identity-based registration): subscribe leaves the registry as it
\* is only when the very same listener is registered already, and otherwise
\* registers it, so that two distinct listeners are both registered also
\* when they compare equal; an unsubscribe handle removes no listener but
\* the one it was made for.
C16_ByIdentity ==
  [][/\ event'.op = "subscribe" =>
          /\ event'.listener \in Range(_listeners')
          /\ _listeners' = _listeners => event'.listener \in Range(_listeners)
     /\ event'.op = "remove_listener" =>
          Range(_listeners) \ Range(_listeners') \subseteq {event'.listener}]_vars

\* C17 (frame of subscribe, unsubscribe and state read): subscribe and the
\* unsubscribe handles change nothing but the registry: they call neither
\* the reducer nor a listener, move no dispatch in progress and leave the
\* state alone; reading the state returns it, changes neither the state nor
\* the registry and calls nothing.
C17_Frame ==
  [][/\ event'.op \in {"subscribe", "remove_listener"} =>
          /\ Is(_state', _state) /\ _reducer' = _reducer
          /\ origin' = origin /\ nextAddr' = nextAddr
          /\ event'.rcalls = 0 /\ event'.inv = NoListener /\ ~event'.raised
          /\ event'.pass = NoPass
          /\ Len(stack') = Len(stack)
          /\ \A k \in 1..Len(stack) :
               /\ stack'[k].i = stack[k].i /\ stack'[k].cur = stack[k].cur
               /\ stack'[k].called = stack[k].called
               /\ stack'[k].prev = stack[k].prev /\ stack'[k].new = stack[k].new
               /\ stack'[k].latest = stack[k].latest
     /\ event'.op = "state" =>
          /\ Is(event'.value, _state)
          /\ Is(_state', _state) /\ _listeners' = _listeners
          /\ _reducer' = _reducer /\ origin' = origin /\ nextAddr' = nextAddr
          /\ stack' = stack
          /\ event'.rcalls = 0 /\ event'.inv = NoListener /\ ~event'.raised]_vars

C17_Witness ==
  /\ event.op = "state" /\ Is(event.value, IntV(1))
  /\ stack # <<>>
  /\ Len(_listeners) = 2
  /\ revoked # {}
  /\ Top.removed # {}

\* a listener that raises ends its dispatch at once: the error leaves the
\* dispatch, the state and the registry stay as they are, no further
\* listener is called for that dispatch, and every later call of a listener
\* carries the states of the dispatch that makes it
RaiseEndsDispatch ==
  /\ event'.op = "raise" =>
       /\ event'.raised /\ event'.inv = NoListener
       /\ stack' = Pop(stack)
       /\ event'.pass.status = "aborted"
       /\ Is(_state', _state) /\ Is(_state', Top.latest)
       /\ _listeners' = _listeners
  /\ event'.inv # NoListener =>
       /\ event'.iprev = stack'[Len(stack')].prev
       /\ event'.inew = stack'[Len(stack')].new

C18_RaiseEndsDispatch == [][RaiseEndsDispatch]_vars

\* C18 (listener failure): when a listener raises during a dispatch, the
\* error reaches the caller of the dispatch, the new state stays committed,
\* the listeners earlier in the registry (before the position the loop read
\* the raising listener from) have been notified and the later ones are not
\* notified of that change, then or later.
C18_ListenerFailure ==
  [][/\ RaiseEndsDispatch
     /\ event'.op = "raise" =>
          \A j \in 1..(stack[Len(stack)].i - 1) :
            j <= Len(_listeners) => _listeners[j] \in Range(event'.pass.called)]_vars

\* the calls a pass made after its first n
CalledAfter(pass, n) == Range(SubSeq(pass.called, n + 1, Len(pass.called)))

\* the removals of a pass at or before the position of its loop that put
\* another listener into that position
Skipping(pass) ==
  { n \in 1..Len(pass.removals) :
      pass.removals[n].pos <= pass.removals[n].i /\ pass.removals[n].next # NoListener }

AllReturn(factory, names, state, action) ==
  \A i \in 1..Len(names) :
    /\ IF factory = "none" THEN state.t = "odict" ELSE state.t = "obj"
    /\ HasName(state, names[i])
    /\ ~SubReducer(names[i], ValueOf(state, names[i]), action).raised

\* (name, sub-reducer's result) for every name, in declared order
Results(names, state, action) ==
  [i \in 1..Len(names) |->
     Item(names[i], SubReducer(names[i], ValueOf(state, names[i]), action).value)]

\* one call (name, state[name], action) for every name, in declared order
OneCallEach(names, state, action) ==
  [i \in 1..Len(names) |-> Call(names[i], ValueOf(state, names[i]), action)]

\* C9 (composition law, no factory): when every sub-reducer returns, the
\* combined reducer has called each sub-reducer once with (state[name],
\* action), in declared order, and returns an ordered mapping of exactly those
\* names, in that order, to the sub-reducers' results; the mapping is a new
\* object, not the input state, also when no slice changed.
C9_CompositionLaw ==
  LET r == rInput.reducer
      st == rInput.state
      a == rInput.action
  IN (rOutput.ready /\ r.factory = "none" /\ AllReturn(r.factory, r.names, st, a)) =>
       /\ ~rOutput.res.raised
       /\ rOutput.res.calls = OneCallEach(r.names, st, a)
       /\ rOutput.res.value.t = "odict"
       /\ rOutput.res.value.items = Results(r.names, st, a)
       /\ ~Is(rOutput.res.value, st)
       /\ rOutput.res.value.addr = rInput.fresh /\ rOutput.res.allocs = 1

C9_Witness ==
  /\ rOutput.ready /\ ~rOutput.res.raised
  /\ rInput.reducer.factory = "none"
  /\ rInput.reducer.names = Reversed
  /\ rInput.action.type = "UNKNOWN"
  /\ Eq(rOutput.res.value, rInput.state)
  /\ ~Is(rOutput.res.value, rInput.state)

\* C10 (composition law, with factory): when every sub-reducer returns, the
\* combined reducer has read each slice as an attribute of the state, called
\* each sub-reducer once with (slice, action) in declared order, and returns
\* exactly what the factory makes of the results by name; it returns the
\* input state itself only when the factory does.
C10_CompositionLawFactory ==
  LET r == rInput.reducer
      st == rInput.state
      a == rInput.action
      made == state_factory(r.factory, rInput.fresh, Results(r.names, st, a))
  IN (rOutput.ready /\ r.factory # "none" /\ AllReturn(r.factory, r.names, st, a)) =>
       /\ ~rOutput.res.raised
       /\ rOutput.res.calls = OneCallEach(r.names, st, a)
       /\ rOutput.res.value = made
       /\ Is(rOutput.res.value, st) => Is(made, st)
       /\ r.factory = "AppState" => ~Is(rOutput.res.value, st)

C10_Witness ==
  /\ rOutput.ready /\ ~rOutput.res.raised
  /\ rInput.reducer.factory = "AppState"
  /\ rInput.action.type = "SET_VISIBILITY_FILTER"
  /\ rInput.state.t = "obj"
  /\ rInput.fresh > 1
  /\ ValueOf(rOutput.res.value, "visibility_filter") # ValueOf(rInput.state, "visibility_filter")

\* C20 (combined reducer on absent state): a reducer built by
\* combine_reducers raises on the state None, whatever the action, before it
\* has called a sub-reducer; so create_store never returns a store for it,
\* and a store constructed with it keeps the state None, every dispatch
\* raising.
C20_AbsentState ==
  /\ event.op \in {"Store", "create_store"} =>
       \A r \in Combined \cup {q \in Reducers : q.kind = "combine"}, a \in Actions :
         Reduce(r, NoneV, a, nextAddr).raised /\ Reduce(r, NoneV, a, nextAddr).calls = <<>>
  /\ origin = "created" => _reducer.kind # "combine"
  /\ (event.op = "create_store" /\ event.raised) =>
       origin = "none" /\ _reducer = NoReducer /\ Is(_state, NoneV) /\ stack = <<>>
  /\ _reducer.kind = "combine" =>
       /\ origin = "ctor" /\ Is(_state, NoneV) /\ stack = <<>>
       /\ event.op = "dispatch" => event.raised /\ event.inv = NoListener

C20_Witness ==
  /\ event.op = "dispatch" /\ event.raised
  /\ _reducer.kind = "combine" /\ _reducer.factory = "AppState"
  /\ _listeners # <<>>

(* ---------------- properties of the store tests ---------------- *)
\* the actions of test_dispatch and test_subscribe, the states test_dispatch
\* expects after them and the trace test_subscribe expects
TestActions ==
  <<Action("INC_COUNTER"), Action("INC_COUNTER"), Action("DEC_COUNTER"),
    Action("DEC_COUNTER"), Action("UNKNOWN")>>

TestStates == <<IntV(1), IntV(2), IntV(1), IntV(0), IntV(0)>>

TestTrace ==
  << <<IntV(0), IntV(1)>>, <<IntV(1), IntV(2)>>, <<IntV(2), IntV(1)>>, <<IntV(1), IntV(0)>> >>

Prefix(q, k) == SubSeq(q, 1, IF k < Len(q) THEN k ELSE Len(q))

\* C11 (counter scenario): with the counter reducer and one listener
\* subscribed right after creation, after the first k of the dispatches INC,
\* INC, DEC, DEC, UNKNOWN the states read are the first k of 1, 2, 1, 0, 0
\* and the listener has been called with the first k of (0,1), (1,2), (2,1),
\* (1,0) and nothing else (UNKNOWN adds no call); after remove_listener() no
\* dispatch calls the listener, and a further INC makes the state 1.
C11_CounterScenario ==
  /\ \A k \in 0..Len(TestActions) :
       (/\ script.sent = Prefix(TestActions, k)
        /\ script.unsubscribed = -1
        /\ Len(script.seen) = k)
       => (/\ script.seen = Prefix(TestStates, k)
           /\ stack = <<>> => trace = Prefix(TestTrace, k))
  /\ script.unsubscribed # -1 => trace = <<>> /\ event.inv = NoListener
  /\ (/\ script.sent = Append(TestActions, Action("INC_COUNTER"))
      /\ script.unsubscribed = Len(TestActions)
      /\ Len(script.seen) = Len(script.sent))
     => script.seen = Append(TestStates, IntV(1))

C11_Witness ==
  /\ script.sent = Append(TestActions, Action("INC_COUNTER"))
  /\ script.unsubscribed = Len(TestActions)
  /\ script.seen = Append(TestStates, IntV(1))
  /\ trace = <<>>
  /\ event.op = "state"

====
